---- MODULE Spec2Model ----
(***************************************************************************)
(* A model of the appointment-scheduling agent: the slot computation of    *)
(* the availability engine, the booking tools (create / cancel /           *)
(* reschedule) over the local store and the external calendar, the turn    *)
(* controller with its message store and rolling summary, and the profile  *)
(* merge of the total memory.                                              *)
(*                                                                         *)
(* The module holds several specifications over one set of variables.      *)
(* Each specification moves only the variables of its own component and    *)
(* leaves the others at their initial value.                               *)
(***************************************************************************)
EXTENDS Integers, Sequences, FiniteSets, TLC

VARIABLES
    \* ---- calculate_available_slots (tools/calendar_integration.py) ----
    availability_blocks,   \* argument: list of (start, end) times
    booked_slots,          \* argument: list of (start, end) times
    duration_minutes,      \* argument
    available_slots,       \* the returned list of start times
    calc_pc,               \* "call" before the function ran, "done" after
    \* ---- TotalMemory (memory/total.py) ----
    profile,               \* the stored UserProfile
    profile_before,        \* the profile the last operation started from
    profile_call,          \* the last operation and its arguments
    profile_ops,           \* number of operations applied so far
    \* ---- booking tools (tools/appointments.py, tools/availability.py) ----
    appointments,          \* the appointments table, in insertion order
    gcal_events,           \* the non-marker events of the external calendar
    call,                  \* per process: the tool call it is executing
    calls_started,         \* number of tool calls started so far
    \* ---- the turn graph (agent.py, state.py, db/database.py) ----
    clock,                 \* the wall clock, in hours
    conversations,         \* the conversations table of the session
    messages,              \* the messages table, in created_at order
    thread,                \* per chat thread: the graph state and position
    turns_started          \* number of turns started so far

slotVars == <<availability_blocks, booked_slots, duration_minutes,
              available_slots, calc_pc>>

profileVars == <<profile, profile_before, profile_call, profile_ops>>

bookingVars == <<appointments, gcal_events, call, calls_started>>

turnVars == <<clock, conversations, messages, thread, turns_started>>

vars == <<slotVars, profileVars, bookingVars, turnVars>>

\* what each component's actions leave unchanged
outsideSlot == <<profileVars, bookingVars, turnVars>>
outsideProfile == <<slotVars, bookingVars, turnVars>>
outsideBooking == <<slotVars, profileVars, turnVars>>
outsideTurn == <<slotVars, profileVars, bookingVars>>

(***************************************************************************)
(* The value each component's variables keep while another component's     *)
(* specification runs.                                                     *)
(***************************************************************************)
SlotIdle ==
    /\ availability_blocks = <<>>
    /\ booked_slots = <<>>
    /\ duration_minutes = 0
    /\ available_slots = <<>>
    /\ calc_pc = "idle"

Procs == {1, 2}

BookingIdle ==
    /\ appointments = <<>>
    /\ gcal_events = <<>>
    /\ call = [p \in Procs |-> [op |-> "none", pc |-> "idle"]]
    /\ calls_started = 0

ProfileIdle ==
    /\ profile = <<"none">>
    /\ profile_before = <<"none">>
    /\ profile_call = [op |-> "none"]
    /\ profile_ops = 0

Threads == {1, 2}

\* summaries and prompts are tagged tuples; <<"none">> is Python's None
NoSummary == <<"none">>

\* the graph state of a thread no turn has run on (MockAiState defaults),
\* with the locals of the nodes the claims read
FreshThread ==
    [ pc |-> "idle",
      messages |-> <<>>,               \* state.messages
      conversation_id |-> 0,           \* state.conversation_id, 0 is None
      conversation_summary |-> NoSummary,
      inbound |-> "",                  \* content of the message of this turn
      identity |-> "",                 \* what from_number/to_number resolve to
      all_messages |-> <<>>,           \* load_context: state.messages on entry
      should_save |-> FALSE,           \* load_context: the insert decision
      tool_rounds |-> 0,
      prompt |-> NoSummary ]           \* summarize_if_needed: what the LLM got

TurnIdle ==
    /\ clock = 0
    /\ conversations = <<>>
    /\ messages = <<>>
    /\ thread = [t \in Threads |-> FreshThread]
    /\ turns_started = 0

(***************************************************************************)
(* Generic helpers.                                                        *)
(***************************************************************************)
SeqsUpTo(S, n) == UNION {[1..k -> S] : k \in 0..n}

Range(s) == {s[i] : i \in 1..Len(s)}

\* the elements of a finite set of integers as an ascending sequence: the
\* k-th is the element with k - 1 smaller ones
SortedSeqOf(S) ==
    [k \in 1..Cardinality(S) |->
        CHOOSE x \in S : Cardinality({y \in S : y < x}) = k - 1]

(***************************************************************************)
(* datetime.time values are pairs <<hour, minute>>.  The slot computation  *)
(* converts them to minutes of the day and back.                           *)
(***************************************************************************)
Time(h, m) == <<h, m>>

\* avail_start.hour * 60 + avail_start.minute
MinutesOf(t) == t[1] * 60 + t[2]

\* time(current_mins // 60, current_mins % 60)
TimeOfMinutes(c) == <<c \div 60, c % 60>>

(***************************************************************************)
(* calculate_available_slots                                               *)
(***************************************************************************)
\* mutant: the candidate must end strictly before the block end
SlotFitsBlock_Strict(current_mins, duration, avail_end_mins) ==
    current_mins + duration < avail_end_mins

\* the while condition: the candidate still ends inside the block
SlotFitsBlock(current_mins, duration, avail_end_mins) ==
    current_mins + duration <= avail_end_mins

\* mutant: a candidate that only touches a booked block is rejected too
SlotOverlapsBooked_Touching(current_mins, slot_end_mins, booked_start_mins, booked_end_mins) ==
    ~(slot_end_mins < booked_start_mins \/ current_mins > booked_end_mins)

\* the rejection test of one candidate against one booked block
SlotOverlapsBooked(current_mins, slot_end_mins, booked_start_mins, booked_end_mins) ==
    ~(slot_end_mins <= booked_start_mins \/ current_mins >= booked_end_mins)

\* the cursor step at the end of the loop body
NextCursor(current_mins, duration) == current_mins + duration

RECURSIVE IsAvailableFrom(_, _, _, _)
\* the inner for loop over booked_slots, from index i on (break on overlap)
IsAvailableFrom(i, booked, current_mins, slot_end_mins) ==
    IF i > Len(booked) THEN TRUE
    ELSE IF SlotOverlapsBooked(current_mins, slot_end_mins,
                               MinutesOf(booked[i][1]), MinutesOf(booked[i][2]))
         THEN FALSE
         ELSE IsAvailableFrom(i + 1, booked, current_mins, slot_end_mins)

RECURSIVE SlotsInBlock(_, _, _, _)
\* the while loop over one availability block, cursor at current_mins
SlotsInBlock(current_mins, avail_end_mins, booked, duration) ==
    IF ~SlotFitsBlock(current_mins, duration, avail_end_mins) THEN <<>>
    ELSE LET slot_start    == TimeOfMinutes(current_mins)
             slot_end_mins == current_mins + duration
             rest == SlotsInBlock(NextCursor(current_mins, duration),
                                  avail_end_mins, booked, duration)
         IN  IF IsAvailableFrom(1, booked, current_mins, slot_end_mins)
             THEN <<slot_start>> \o rest
             ELSE rest

RECURSIVE SlotsFromBlock(_, _, _, _)
\* the outer for loop over availability_blocks, from index i on
SlotsFromBlock(i, blocks, booked, duration) ==
    IF i > Len(blocks) THEN <<>>
    ELSE SlotsInBlock(MinutesOf(blocks[i][1]), MinutesOf(blocks[i][2]),
                      booked, duration)
         \o SlotsFromBlock(i + 1, blocks, booked, duration)

calculate_available_slots(blocks, booked, duration) ==
    SlotsFromBlock(1, blocks, booked, duration)

(***************************************************************************)
(* Specification SlotSpec: calculate_available_slots applied to inputs     *)
(* drawn from bounded sets.                                                *)
(***************************************************************************)
MaxBlocks == 2
MaxBooked == 2

\* marker blocks the calendar may return (one reversed, one all-day 00:00-00:00)
BlockChoices ==
    { <<Time(9, 0),  Time(17, 0)>>, <<Time(9, 20), Time(12, 0)>>,
      <<Time(9, 0),  Time(11, 0)>>, <<Time(10, 0), Time(10, 30)>>,
      <<Time(11, 0), Time(9, 0)>>,  <<Time(0, 0),  Time(0, 0)>> }

\* booked blocks the calendar or the local store may return
BookedChoices ==
    { <<Time(10, 0),  Time(10, 40)>>, <<Time(9, 30), Time(10, 0)>>,
      <<Time(10, 40), Time(11, 20)>>, <<Time(9, 0),  Time(9, 20)>>,
      <<Time(12, 0),  Time(11, 0)>> }

DurationChoices == {20, 30, 40, 60}

SlotInit ==
    /\ ProfileIdle
    /\ BookingIdle
    /\ TurnIdle
    /\ availability_blocks \in SeqsUpTo(BlockChoices, MaxBlocks)
    /\ booked_slots \in SeqsUpTo(BookedChoices, MaxBooked)
    /\ duration_minutes \in DurationChoices
    /\ available_slots = <<>>
    /\ calc_pc = "call"

CalculateAvailableSlots ==
    /\ calc_pc = "call"
    /\ available_slots' = calculate_available_slots(availability_blocks,
                                                    booked_slots, duration_minutes)
    /\ calc_pc' = "done"
    /\ UNCHANGED <<availability_blocks, booked_slots, duration_minutes>>
    /\ UNCHANGED outsideSlot

SlotNext == CalculateAvailableSlots

SlotSpec == SlotInit /\ [][SlotNext]_vars

(***************************************************************************)
(* TotalMemory: the profile merge (memory/total.py).                       *)
(*                                                                         *)
(* A UserProfile is a record.  Python values are tagged tuples:            *)
(* <<"list", l>>, <<"str", x>>, <<"none">>; a key that an updates dict     *)
(* does not hold has the value <<"absent">>.                               *)
(***************************************************************************)
ListV(l) == <<"list", l>>
StrV(x) == <<"str", x>>
None == <<"none">>
Absent == <<"absent">>

IsList(v) == v[1] = "list"     \* isinstance(v, list)
IsStr(v) == v[1] = "str"       \* isinstance(v, str)
IsAbsent(v) == v[1] = "absent"
Items(v) == v[2]

\* data["preferred_services"][-5:] and data["preferred_employees"][-3:]
KeepRecentServices == 5
KeepRecentEmployees == 3

\* l[-n:]
LastN(l, n) == IF Len(l) <= n THEN l ELSE SubSeq(l, Len(l) - n + 1, Len(l))

RECURSIVE AppendMissing(_, _, _, _)
\* for item in value: if item not in existing: data[key].append(item)
\* (existing is the set taken before the loop; it is not updated in the loop)
AppendMissing(i, value, existing, acc) ==
    IF i > Len(value) THEN acc
    ELSE AppendMissing(i + 1, value, existing,
                       IF value[i] \notin existing THEN Append(acc, value[i])
                       ELSE acc)

\* one pass of the loop body of update_profile for a key of the profile
MergeValue(current, value) ==
    IF IsAbsent(value) THEN current
    ELSE IF IsList(current) /\ IsList(value)
         THEN ListV(AppendMissing(1, Items(value), Range(Items(current)),
                                  Items(current)))
    ELSE IF IsList(current) /\ IsStr(value)
         THEN (IF Items(value) \notin Range(Items(current))
               THEN ListV(Append(Items(current), Items(value)))
               ELSE current)
    ELSE value

\* UserProfile(**data): list fields must be lists, scalars str or None
ValidProfile(data) ==
    /\ IsList(data.preferred_services)
    /\ IsList(data.preferred_employees)
    /\ IsList(data.preferred_time_slots)
    /\ ~IsList(data.full_name)

\* update_profile(profile, updates): the new profile, or raised = TRUE when
\* UserProfile(**data) rejects the merged data (pydantic ValidationError).  A key of updates that is
\* no field of the profile (updates.unknown) is skipped.
update_profile(prof, updates) ==
    LET data == [prof EXCEPT
                   !.full_name = MergeValue(@, updates.full_name),
                   !.preferred_services = MergeValue(@, updates.preferred_services),
                   !.preferred_employees = MergeValue(@, updates.preferred_employees),
                   !.last_interaction = StrV("now")]
    IN  IF ValidProfile(data) THEN [raised |-> FALSE, profile |-> data]
        ELSE [raised |-> TRUE, profile |-> prof]

\* update_after_appointment(profile, service_name, employee_name, date, time)
update_after_appointment(prof, service_name, employee_name, hour) ==
    LET time_slot == IF hour < 12 THEN "manana" ELSE "tarde"
        AddRecent(v, item, n) ==
            IF item \notin Range(Items(v))
            THEN ListV(LastN(Append(Items(v), item), n)) ELSE v
    IN  [prof EXCEPT
           !.total_appointments = @ + 1,
           !.last_appointment_service = StrV(service_name),
           !.preferred_services = AddRecent(@, service_name, KeepRecentServices),
           !.preferred_employees = AddRecent(@, employee_name, KeepRecentEmployees),
           !.preferred_time_slots =
               IF time_slot \notin Range(Items(@))
               THEN ListV(Append(Items(@), time_slot)) ELSE @,
           !.last_interaction = StrV("now")]

(***************************************************************************)
(* Specification ProfileSpec: merges applied to stored profiles.           *)
(***************************************************************************)
MaxProfileOps == 1      \* operations applied to one stored profile
MaxExtracted == 2       \* length of an extracted list value

ServiceNames == {"A", "B"}
EmployeeNames == {"E1", "E2", "E3", "E4"}
FullNames == {"Ana"}

NoDuplicates(l) == \A i, j \in 1..Len(l) : i # j => l[i] # l[j]

\* duplicate-free lists of at most n items of S
DistinctSeqs(S, n) == {l \in SeqsUpTo(S, n) : NoDuplicates(l)}

\* the stored employee lists, one per length (the names are interchangeable)
StoredEmployeeLists ==
    {l \in DistinctSeqs(EmployeeNames, KeepRecentEmployees) :
        l = SubSeq(<<"E1", "E2", "E3">>, 1, Len(l))}

StrVs(S) == {StrV(x) : x \in S}
ListVs(S) == {ListV(l) : l \in S}

\* the updates dicts an extraction may return
UpdateChoices ==
    [ full_name : {Absent, None, StrV("")} \cup StrVs(FullNames),
      preferred_services :
          {Absent, None} \cup StrVs(ServiceNames)
              \cup ListVs(SeqsUpTo(ServiceNames, MaxExtracted)),
      preferred_employees :
          {Absent, None} \cup StrVs(EmployeeNames)
              \cup ListVs(SeqsUpTo(EmployeeNames, MaxExtracted)),
      unknown : {Absent, StrV("x")} ]

\* profiles as the defaults of UserProfile and earlier merges leave them
ProfileInit ==
    /\ SlotIdle
    /\ BookingIdle
    /\ TurnIdle
    /\ profile \in
         [ full_name : {None} \cup StrVs(FullNames),
           total_appointments : {0},
           last_appointment_service : {None},
           preferred_services :
               ListVs(DistinctSeqs(ServiceNames, KeepRecentServices)),
           preferred_employees :
               ListVs(StoredEmployeeLists),
           preferred_time_slots : {ListV(<<>>)},
           last_interaction : {None} ]
    /\ profile_before = <<"none">>
    /\ profile_call = [op |-> "none"]
    /\ profile_ops = 0

UpdateProfile ==
    /\ profile_ops < MaxProfileOps
    /\ \E updates \in UpdateChoices :
          LET new == update_profile(profile, updates)
          IN  /\ profile_call' = [op |-> "update_profile", updates |-> updates,
                                  raised |-> new.raised]
              /\ profile' = new.profile
    /\ profile_before' = profile
    /\ profile_ops' = profile_ops + 1
    /\ UNCHANGED outsideProfile

UpdateAfterAppointment ==
    /\ profile_ops < MaxProfileOps
    /\ \E service_name \in ServiceNames, employee_name \in EmployeeNames,
          hour \in {9, 15} :
          /\ profile_call' = [op |-> "update_after_appointment",
                              service_name |-> service_name,
                              employee_name |-> employee_name, hour |-> hour]
          /\ profile' = update_after_appointment(profile, service_name,
                                                 employee_name, hour)
    /\ profile_before' = profile
    /\ profile_ops' = profile_ops + 1
    /\ UNCHANGED outsideProfile

ProfileNext == UpdateProfile \/ UpdateAfterAppointment

ProfileSpec == ProfileInit /\ [][ProfileNext]_vars

(***************************************************************************)
(* The booking tools: create_appointment, cancel_appointment and           *)
(* reschedule_appointment (tools/appointments.py) over the appointments    *)
(* table (db/database.py), the availability engine (tools/availability.py) *)
(* and the calendar client (tools/calendar_integration.py).                *)
(*                                                                         *)
(* A tool call runs as a process.  Every access to the local store or to   *)
(* the external calendar is one step; calls of different processes         *)
(* interleave between steps, because neither the store nor the calendar is *)
(* locked across a call.                                                   *)
(***************************************************************************)
MaxCalls == 2          \* tool calls started in one run

\* the calendars table: "ana" mirrors an external calendar, "luis" has an
\* empty google_calendar_id; both have a default schedule
Calendars ==
    [ ana  |-> [id |-> "ana", google_calendar_id |-> "g-ana",
                default_start_time |-> Time(9, 0), default_end_time |-> Time(10, 20)],
      luis |-> [id |-> "luis", google_calendar_id |-> "",
                default_start_time |-> Time(9, 0), default_end_time |-> Time(10, 20)] ]

CalendarIds == {"ana", "luis"}
Dates == {1, 2}
RequestTimes == {Time(9, 0), Time(9, 40)}
ServiceDurations == {40, 80}      \* duration_minutes of the services
Reasons == {"r1", "r2"}

\* what the calendar may hold as marker events of one day
MarkerChoices ==
    { <<>>, << <<Time(9, 0), Time(10, 20)>> >>, << <<Time(10, 0), Time(14, 0)>> >> }

NoEvent == 0   \* google_event_id IS NULL

\* start_datetime + timedelta(minutes=duration), .time()
EndTime(start, duration) == TimeOfMinutes((MinutesOf(start) + duration) % 1440)

\* db.get_appointments_by_calendar_and_date: the scheduled rows of a calendar
\* and date (the order does not matter to calculate_available_slots)
get_appointments_by_calendar_and_date(calendar_id, date) ==
    LET Keep(i) == /\ appointments[i].calendar_id = calendar_id
                   /\ appointments[i].appointment_date = date
                   /\ appointments[i].status = "scheduled"
        idx == SortedSeqOf({i \in 1..Len(appointments) : Keep(i)})
    IN  [k \in 1..Len(idx) |-> appointments[idx[k]]]

\* GoogleCalendarClient.get_booked_slots: every non-marker event of the day
get_booked_slots(google_calendar_id, date) ==
    LET Keep(i) == /\ gcal_events[i].calendar = google_calendar_id
                   /\ gcal_events[i].date = date
        idx == SortedSeqOf({i \in 1..Len(gcal_events) : Keep(i)})
    IN  [k \in 1..Len(idx) |-> <<gcal_events[idx[k]].start, gcal_events[idx[k]].end>>]

\* The outcomes of the two calendar reads of one availability query.
\*   markers_status: "ok" (markers holds the marker blocks), "http_error"
\*     (the client logs it and returns []), "raise" (any other exception);
\*   booked_status: the same three for get_booked_slots.
\* The outcomes of the two calendar reads of one availability check.  The
\* marker read is the client's get_availability_blocks, the only marker read
\* the client defines; availability.py line 45 calls it under the name
\* get_mock_ai_availability, which the client does not define, so in the
\* build as it stands this read always takes the "raise" outcome.
\* The second read happens only after a first read that returned markers.
FetchOutcomes ==
    { f \in [ markers_status : {"ok", "http_error", "raise"},
              markers : MarkerChoices,
              booked_status : {"ok", "http_error", "raise", "not_fetched"} ] :
        /\ f.markers_status # "ok" => f.markers = <<>>
        /\ f.booked_status = "not_fetched" <=> f.markers = <<>> }

\* a calendar without google_calendar_id is never read from the calendar API
NotFetched ==
    [ markers_status |-> "not_fetched", markers |-> <<>>,
      booked_status |-> "not_fetched" ]
FetchOutcomesOf(calendar_id) ==
    IF Calendars[calendar_id].google_calendar_id # "" THEN FetchOutcomes
    ELSE {NotFetched}

\* mutant: with no marker event the default schedule is used
get_available_slots_for_calendar_Default(calendar_id, date, duration, fetch) ==
    LET calendar == Calendars[calendar_id]
        local_booked ==
            LET apts == get_appointments_by_calendar_and_date(calendar_id, date)
            IN  [k \in 1..Len(apts) |-> <<apts[k].start_time, apts[k].end_time>>]
        default_block == << <<calendar.default_start_time, calendar.default_end_time>> >>
    IN  IF calendar.google_calendar_id # "" /\ fetch.markers_status # "ok"
        THEN <<>>
        ELSE IF calendar.google_calendar_id # "" /\ fetch.markers # <<>>
        THEN IF fetch.booked_status = "raise" THEN <<>>
             ELSE calculate_available_slots(
                      fetch.markers,
                      IF fetch.booked_status = "http_error" THEN <<>>
                      ELSE get_booked_slots(calendar.google_calendar_id, date),
                      duration)
        ELSE calculate_available_slots(default_block, local_booked, duration)

\* _get_available_slots_for_calendar(calendar_id, google_calendar_id,
\*                                   target_date, duration_minutes, use_google=True)
get_available_slots_for_calendar(calendar_id, date, duration, fetch) ==
    LET calendar == Calendars[calendar_id]
    IN  IF calendar.google_calendar_id # ""
        THEN \* the marker read: [] on HttpError, and "not availability_blocks"
             \* returns []; any other exception is caught and returns []
             IF fetch.markers_status # "ok" \/ fetch.markers = <<>> THEN <<>>
             ELSE IF fetch.booked_status = "raise" THEN <<>>
             ELSE calculate_available_slots(
                      fetch.markers,
                      IF fetch.booked_status = "http_error" THEN <<>>
                      ELSE get_booked_slots(calendar.google_calendar_id, date),
                      duration)
        ELSE \* no external calendar: default schedule and local appointments
             LET apts == get_appointments_by_calendar_and_date(calendar_id, date)
                 booked == [k \in 1..Len(apts) |->
                               <<apts[k].start_time, apts[k].end_time>>]
             IN  calculate_available_slots(
                     << <<calendar.default_start_time, calendar.default_end_time>> >>,
                     booked, duration)

FirstFive_All(l) == l

\* available_slots[:5]
FirstFive(l) == IF Len(l) <= 5 THEN l ELSE SubSeq(l, 1, 5)

Finished(p) == call[p].pc \in {"idle", "done"}

Done(c, result) == [c EXCEPT !.pc = "done", !.result = result]

\* the local value of google_event_id / new_event_id inside a tool call:
\* None, or the pair (event_id, meet_link) create_appointment_event returns
\* (event_id is NoEvent when the client swallowed an HttpError)
NoneId == [kind |-> "none"]
PairId(event_id) == [kind |-> "tuple", id |-> event_id]

\* sqlite3 binds None and str, and raises ProgrammingError for a tuple
BindsToSqlite(v) == v.kind = "none"

\* an appointment the table holds from an earlier booking, with its event

SeedAppointment ==
    [ calendar_id |-> "ana", appointment_date |-> 1,
      start_time |-> Time(9, 0), end_time |-> Time(9, 40),
      service_duration_snapshot |-> 40, google_event_id |-> 100,
      status |-> "scheduled", cancellation_reason |-> "", cancelled_by |-> "",
      cancelled_at |-> 0 ]
SeedEvent ==
    [ id |-> 100, calendar |-> "g-ana", date |-> 1,
      start |-> Time(9, 0), end |-> Time(9, 40) ]

BookingInit ==
    /\ SlotIdle
    /\ ProfileIdle
    /\ TurnIdle
    /\ \/ appointments = <<>> /\ gcal_events = <<>>
       \/ appointments = <<SeedAppointment>> /\ gcal_events = <<SeedEvent>>
    /\ call = [p \in Procs |-> [op |-> "none", pc |-> "idle"]]
    /\ calls_started = 0

\* events().delete: the event is gone afterwards
WithoutEvent(events, event_id) ==
    LET idx == SortedSeqOf({i \in 1..Len(events) : events[i].id # event_id})
    IN  [k \in 1..Len(idx) |-> events[idx[k]]]

(*------------------------- create_appointment ---------------------------*)
\* lines 41-98: look-ups, parsing, the availability check at commit time and
\* the decision
CreateCheck(p) ==
    /\ Finished(p)
    /\ calls_started < MaxCalls
    /\ \E calendar_id \in CalendarIds, date \in Dates, time \in RequestTimes,
          duration \in ServiceDurations,
          lookup \in {"ok", "not_found", "bad_format"} :
       \E fetch \in FetchOutcomesOf(calendar_id) :
          LET slots == get_available_slots_for_calendar(calendar_id, date,
                                                        duration, fetch)
              c == [ op |-> "create", pc |-> "calendar", n |-> calls_started + 1,
                     calendar_id |-> calendar_id, date |-> date, time |-> time,
                     duration |-> duration,
                     markers_status |-> fetch.markers_status,
                     markers |-> fetch.markers,
                     available_slots |-> slots,
                     alternatives |-> <<>>,
                     google_event_id |-> NoneId, result |-> "" ]
          IN  call' = [call EXCEPT ![p] =
                  IF lookup # "ok"
                  THEN Done([c EXCEPT !.markers_status = "not_fetched",
                                      !.markers = <<>>,
                                      !.available_slots = <<>>], lookup)
                  ELSE IF time \notin Range(slots)
                  THEN \* the message names available_slots[:5], if any
                       Done([c EXCEPT !.alternatives = FirstFive(slots)],
                            "rejected")
                  ELSE c]
    /\ calls_started' = calls_started + 1
    /\ UNCHANGED <<appointments, gcal_events>>
    /\ UNCHANGED outsideBooking

\* lines 100-125: the calendar write, in a try block
CreateCalendarEvent(p) ==
    /\ call[p].op = "create" /\ call[p].pc = "calendar"
    /\ LET c == call[p]
           gid == Calendars[c.calendar_id].google_calendar_id
       IN  \/ \* the event is inserted; the client returns (event_id, meet_link)
              /\ gid # ""
              /\ gcal_events' = Append(gcal_events,
                     [id |-> c.n, calendar |-> gid, date |-> c.date,
                      start |-> c.time, end |-> EndTime(c.time, c.duration)])
              /\ call' = [call EXCEPT ![p].google_event_id = PairId(c.n),
                                      ![p].pc = "persist"]
           \/ \* HttpError inside the client: it returns (None, None)
              /\ gcal_events' = gcal_events
              /\ call' = [call EXCEPT ![p].google_event_id = PairId(NoEvent),
                                      ![p].pc = "persist"]
           \/ \* any other exception: caught, google_event_id stays None
              /\ gcal_events' = gcal_events
              /\ call' = [call EXCEPT ![p].pc = "persist"]
    /\ UNCHANGED <<appointments, calls_started>>
    /\ UNCHANGED outsideBooking

\* lines 127-165: db.create_appointment and the returned confirmation
CreatePersist(p) ==
    /\ call[p].op = "create" /\ call[p].pc = "persist"
    /\ LET c == call[p]
       IN  IF BindsToSqlite(c.google_event_id)
           THEN /\ appointments' = Append(appointments,
                      [ calendar_id |-> c.calendar_id, appointment_date |-> c.date,
                        start_time |-> c.time,
                        end_time |-> EndTime(c.time, c.duration),
                        service_duration_snapshot |-> c.duration,
                        google_event_id |-> NoEvent,
                        status |-> "scheduled", cancellation_reason |-> "",
                        cancelled_by |-> "", cancelled_at |-> 0 ])
                /\ call' = [call EXCEPT ![p] = Done(c, "success")]
           ELSE \* the INSERT raises, the transaction rolls back, the tool raises
                /\ appointments' = appointments
                /\ call' = [call EXCEPT ![p] = Done(c, "raised")]
    /\ UNCHANGED <<gcal_events, calls_started>>
    /\ UNCHANGED outsideBooking

(*------------------------- cancel_appointment ---------------------------*)
AlreadyCancelled_Never(appointment) == FALSE

\* if appointment["status"] == "cancelled": return the friendly message
AlreadyCancelled(appointment) == appointment.status = "cancelled"

\* lines 223-231: read the appointment, return early when missing or cancelled
CancelCheck(p) ==
    /\ Finished(p)
    /\ calls_started < MaxCalls
    /\ \E appointment_id \in 1..(Len(appointments) + 1), reason \in Reasons :
          LET c == [ op |-> "cancel", pc |-> "persist", n |-> calls_started + 1,
                     appointment_id |-> appointment_id, reason |-> reason,
                     google_event_id |-> NoEvent, result |-> "" ]
          IN  call' = [call EXCEPT ![p] =
                  IF appointment_id > Len(appointments) THEN Done(c, "not_found")
                  ELSE IF AlreadyCancelled(appointments[appointment_id])
                       THEN Done(c, "already_cancelled")
                  ELSE IF appointments[appointment_id].google_event_id # NoEvent
                       THEN [c EXCEPT !.pc = "calendar",
                                      !.google_event_id =
                                          appointments[appointment_id].google_event_id]
                  ELSE c]
    /\ calls_started' = calls_started + 1
    /\ UNCHANGED <<appointments, gcal_events>>
    /\ UNCHANGED outsideBooking

\* lines 233-242: best-effort delete of the external event
CancelCalendarDelete(p) ==
    /\ call[p].op = "cancel" /\ call[p].pc = "calendar"
    /\ \/ gcal_events' = WithoutEvent(gcal_events, call[p].google_event_id)
       \/ gcal_events' = gcal_events      \* the delete failed
    /\ call' = [call EXCEPT ![p].pc = "persist"]
    /\ UNCHANGED <<appointments, calls_started>>
    /\ UNCHANGED outsideBooking

cancel_appointment_row_StatusOnly(row, reason, cancelled_by) ==
    [row EXCEPT !.status = "cancelled"]

\* db.cancel_appointment: UPDATE ... WHERE id = ?
cancel_appointment_row(row, reason, cancelled_by) ==
    [row EXCEPT !.status = "cancelled", !.cancellation_reason = reason,
                !.cancelled_by = cancelled_by, !.cancelled_at = @ + 1]

\* lines 244-264
CancelPersist(p) ==
    /\ call[p].op = "cancel" /\ call[p].pc = "persist"
    /\ appointments' = [appointments EXCEPT ![call[p].appointment_id] =
                            cancel_appointment_row(@, call[p].reason, "user")]
    /\ call' = [call EXCEPT ![p] = Done(call[p], "success")]
    /\ UNCHANGED <<gcal_events, calls_started>>
    /\ UNCHANGED outsideBooking

(*----------------------- reschedule_appointment -------------------------*)
\* lines 282-318: read the appointment, require status scheduled, parse,
\* check the availability of the new date and time
RescheduleCheck(p) ==
    /\ Finished(p)
    /\ calls_started < MaxCalls
    /\ \E appointment_id \in 1..(Len(appointments) + 1), date \in Dates,
          time \in RequestTimes, format \in {"ok", "bad_format"} :
       \E fetch \in IF appointment_id <= Len(appointments)
                     THEN FetchOutcomesOf(appointments[appointment_id].calendar_id)
                     ELSE {NotFetched} :
          LET found == appointment_id <= Len(appointments)
              apt == appointments[appointment_id]
              slots == get_available_slots_for_calendar(
                           apt.calendar_id, date, apt.service_duration_snapshot, fetch)
              c == [ op |-> "reschedule", pc |-> "persist", n |-> calls_started + 1,
                     appointment_id |-> appointment_id, date |-> date, time |-> time,
                     calendar_id |-> "", duration |-> 0,
                     markers_status |-> "not_fetched", markers |-> <<>>,
                     available_slots |-> <<>>,
                     google_event_id |-> NoEvent, new_event_id |-> NoneId,
                     result |-> "" ]
          IN  call' = [call EXCEPT ![p] =
                  IF ~found THEN Done(c, "not_found")
                  ELSE IF apt.status # "scheduled" THEN Done(c, "not_scheduled")
                  ELSE IF format # "ok" THEN Done(c, "bad_format")
                  ELSE LET d == [c EXCEPT
                                   !.calendar_id = apt.calendar_id,
                                   !.duration = apt.service_duration_snapshot,
                                   !.markers_status = fetch.markers_status,
                                   !.markers = fetch.markers,
                                   !.available_slots = slots,
                                   !.google_event_id = apt.google_event_id]
                       IN  IF time \notin Range(slots) THEN Done(d, "rejected")
                           ELSE IF apt.google_event_id # NoEvent
                                THEN [d EXCEPT !.pc = "calendar"]
                           ELSE d]
    /\ calls_started' = calls_started + 1
    /\ UNCHANGED <<appointments, gcal_events>>
    /\ UNCHANGED outsideBooking

\* lines 324-360: delete the old event and create the new one, in a try block
RescheduleCalendar(p) ==
    /\ call[p].op = "reschedule" /\ call[p].pc = "calendar"
    /\ LET c == call[p]
           gid == Calendars[c.calendar_id].google_calendar_id
       IN  \E deleted \in BOOLEAN, created \in {"ok", "http_error", "raise"} :
              LET kept == IF deleted THEN WithoutEvent(gcal_events, c.google_event_id)
                          ELSE gcal_events
              IN  /\ created = "ok" => gid # ""
                  /\ gcal_events' =
                       IF created = "ok"
                       THEN Append(kept, [id |-> c.n, calendar |-> gid,
                                          date |-> c.date, start |-> c.time,
                                          end |-> EndTime(c.time, c.duration)])
                       ELSE kept
                  /\ call' = [call EXCEPT
                       ![p].pc = "persist",
                       ![p].new_event_id =
                           IF created = "ok" THEN PairId(c.n)
                           ELSE IF created = "http_error" THEN PairId(NoEvent)
                           ELSE NoneId]
    /\ UNCHANGED <<appointments, calls_started>>
    /\ UNCHANGED outsideBooking

\* lines 362-401: UPDATE appointments SET appointment_date, start_time,
\* end_time, google_event_id WHERE id = ?
ReschedulePersist(p) ==
    /\ call[p].op = "reschedule" /\ call[p].pc = "persist"
    /\ LET c == call[p]
       IN  IF BindsToSqlite(c.new_event_id)
           THEN /\ appointments' = [appointments EXCEPT ![c.appointment_id] =
                      [@ EXCEPT !.appointment_date = c.date,
                                !.start_time = c.time,
                                !.end_time = EndTime(c.time, c.duration),
                                !.google_event_id = NoEvent]]
                /\ call' = [call EXCEPT ![p] = Done(c, "success")]
           ELSE /\ appointments' = appointments
                /\ call' = [call EXCEPT ![p] = Done(c, "raised")]
    /\ UNCHANGED <<gcal_events, calls_started>>
    /\ UNCHANGED outsideBooking

BookingNext ==
    \E p \in Procs :
        \/ CreateCheck(p) \/ CreateCalendarEvent(p) \/ CreatePersist(p)
        \/ CancelCheck(p) \/ CancelCalendarDelete(p) \/ CancelPersist(p)
        \/ RescheduleCheck(p) \/ RescheduleCalendar(p) \/ ReschedulePersist(p)

BookingSpec == BookingInit /\ [][BookingNext]_vars

(***************************************************************************)
(* The turn graph: START -> load_context -> assistant ->                   *)
(* [tools -> assistant]* -> save_final_response -> summarize_if_needed ->  *)
(* END, over the conversations and messages tables of one session.         *)
(* The tools a turn runs act on the appointment tables only; their effect  *)
(* is the subject of BookingSpec and is left out of the turn.              *)
(***************************************************************************)
MaxTurns == 2          \* turns started in one run
MaxToolRounds == 1     \* rounds of tools -> assistant in one turn
MaxClock == 50         \* the last hour the clock reaches

MAX_MESSAGES_BEFORE_SUMMARY == 6
ContextLimit == 6              \* get_conversation_messages(..., limit=6)
RecentForUpdate == 4           \* db_messages[-4:]
KeptOutOfSummary == 2          \* db_messages[:-2]
conversation_timeout_hours == 2
HoursPerDay == 24

StartClock == HoursPerDay + 22   \* 22:00 of day 1
TickHours == {4}

InboundContents == {"hi", "m5"}  \* what a user may send
ReplyContent == "hi"             \* the text of a non-empty reply
REPLACE_MARKER == "__REPLACE_MESSAGES__"

\* LangChain messages
HumanMessage(content) ==
    [type |-> "human", content |-> content, tool_calls |-> FALSE]
AIMessage(content, tool_calls) ==
    [type |-> "ai", content |-> content, tool_calls |-> tool_calls]
SystemMessage(content) ==
    [type |-> "system", content |-> content, tool_calls |-> FALSE]
ToolMessage(content) ==
    [type |-> "tool", content |-> content, tool_calls |-> FALSE]

\* langgraph add_messages: messages are matched by id; every message the
\* graph builds is new and gets a fresh id, so the right list is appended
add_messages(left, right) == left \o right

replace_or_add_messages_Append(left, right) == add_messages(left, right)

\* state.py, the reducer of state.messages
replace_or_add_messages(left, right) ==
    IF right # <<>> /\ right[1].content = REPLACE_MARKER
    THEN Tail(right)
    ELSE add_messages(left, right)

(*---------------------------- db/database.py ----------------------------*)
\* SELECT * FROM messages WHERE conversation_id = ? ORDER BY created_at,
\* with "DESC LIMIT n" and a reversal when a limit is given
get_conversation_messages(conversation_id, limit) ==
    LET idx == SortedSeqOf({i \in 1..Len(messages) :
                               messages[i].conversation_id = conversation_id})
        rows == [k \in 1..Len(idx) |-> messages[idx[k]]]
    IN  IF limit # 0 THEN LastN(rows, limit) ELSE rows

\* add_message: the INSERT ...
add_message_row(rows, conversation_id, role, content) ==
    Append(rows, [conversation_id |-> conversation_id, role |-> role,
                  content |-> content])

add_message_conversation_TimestampOnly(convs, conversation_id, now) ==
    [convs EXCEPT ![conversation_id].last_message_at = now]

\* ... and the UPDATE of the conversation, in the same transaction
add_message_conversation(convs, conversation_id, now) ==
    [convs EXCEPT ![conversation_id].message_count = @ + 1,
                  ![conversation_id].last_message_at = now]

DayOf(t) == t \div HoursPerDay

\* last_message_at > datetime('now', '-N hours'): the column holds the
\* isoformat text "YYYY-MM-DDTHH:MM:SS" and datetime() yields
\* "YYYY-MM-DD HH:MM:SS", compared as text: the dates decide, and on equal
\* dates "T" is greater than " "
InWindow(last_message_at, now, timeout_hours) ==
    DayOf(last_message_at) >= DayOf(now - timeout_hours)

\* ... WHERE status = 'active' AND <window> ORDER BY created_at DESC LIMIT 1;
\* 0 when there is no such row
get_active_conversation(now, timeout_hours) ==
    LET found == {c \in 1..Len(conversations) :
                     /\ conversations[c].status = "active"
                     /\ InWindow(conversations[c].last_message_at, now,
                                 timeout_hours)}
    IN  IF found = {} THEN 0
        ELSE CHOOSE c \in found : \A d \in found : d <= c

create_conversation(convs, now) ==
    Append(convs, [status |-> "active", last_message_at |-> now,
                   summary |-> NoSummary, message_count |-> 0])

(*------------------------------ agent.py --------------------------------*)
db_messages_to_langchain(db_messages) ==
    [k \in 1..Len(db_messages) |->
        IF db_messages[k].role = "human"
        THEN HumanMessage(db_messages[k].content)
        ELSE AIMessage(db_messages[k].content, FALSE)]

\* for msg in reversed(all_messages): if isinstance(msg, HumanMessage)
LastHumanIndex(all_messages) ==
    LET humans == {i \in 1..Len(all_messages) : all_messages[i].type = "human"}
    IN  IF humans = {} THEN 0
        ELSE CHOOSE i \in humans : \A j \in humans : j <= i

IsDuplicate_Never(last_db_msg, content) == FALSE

\* the idempotency guard of load_context
IsDuplicate(last_db_msg, content) ==
    last_db_msg.role = "human" /\ last_db_msg.content = content

\* format_db_messages_for_summary: one line per human or ai row
format_db_messages_for_summary(msgs) ==
    LET idx == SortedSeqOf({i \in 1..Len(msgs) : msgs[i].role \in {"human", "ai"}})
    IN  [k \in 1..Len(idx) |-> <<msgs[idx[k]].role, msgs[idx[k]].content>>]

AllButLast(l, n) == IF Len(l) <= n THEN <<>> ELSE SubSeq(l, 1, Len(l) - n)

\* the prompt summarize_if_needed formats
SummaryPrompt(existing_summary, db_messages) ==
    IF existing_summary # NoSummary
    THEN <<"update", existing_summary,
           format_db_messages_for_summary(LastN(db_messages, RecentForUpdate))>>
    ELSE <<"create", NoSummary,
           format_db_messages_for_summary(AllButLast(db_messages, KeptOutOfSummary))>>

(*-------------------------- memory/short_term.py -------------------------*)
\* ShortTermMemory.get_messages_for_summarization: the pair
\* (existing summary, messages to summarize); the graph does not call it
get_messages_for_summarization(msgs, existing_summary) ==
    LET count == Len(msgs)
    IN  IF count = 7 THEN <<NoSummary, SubSeq(msgs, 1, 6)>>
        ELSE IF count > 7 /\ existing_summary # NoSummary
             THEN <<existing_summary, SubSeq(msgs, count - 3, count - 2)>>
        ELSE <<existing_summary, <<>> >>

\* the text the LLM returns for a prompt
LLMSummary(prompt) == <<"llm", prompt>>

(*------------------------- the state before a run ------------------------*)
SeedContents == <<"m1", "m2", "m3", "m4", "m5", "m6", "m7", "m8">>
SeedSizes == {0, 5, 6, 8}

\* a conversation of n stored messages, user and assistant alternating
SeedRows(n) ==
    [i \in 1..n |-> [conversation_id |-> 1,
                     role |-> IF i % 2 = 1 THEN "human" ELSE "ai",
                     content |-> SeedContents[i]]]

\* the summary the conversation got when it first exceeded six messages
SeedSummary(n) ==
    IF n > MAX_MESSAGES_BEFORE_SUMMARY
    THEN LLMSummary(SummaryPrompt(NoSummary, SeedRows(n)))
    ELSE NoSummary

TurnInit ==
    /\ SlotIdle
    /\ ProfileIdle
    /\ BookingIdle
    /\ clock = StartClock
    /\ \E n \in SeedSizes :
          /\ messages = SeedRows(n)
          /\ conversations =
                IF n = 0 THEN <<>>
                ELSE << [status |-> "active", last_message_at |-> StartClock,
                         summary |-> SeedSummary(n), message_count |-> n] >>
    /\ thread = [t \in Threads |-> FreshThread]
    /\ turns_started = 0

TurnOver(t) == thread[t].pc \in {"idle", "done", "failed"}

(*------------------------------ the nodes --------------------------------*)
\* graph.invoke({"messages": [HumanMessage(content=message)]}, config): the
\* input goes through the reducer onto the state the thread kept (with a
\* checkpointer) or onto a fresh state (without one)
StartTurn(t) ==
    /\ TurnOver(t)
    /\ turns_started < MaxTurns
    /\ \E content \in InboundContents, kept \in BOOLEAN,
          identity \in {"ok", "unresolved", "no_client"} :
          LET base == IF kept THEN thread[t] ELSE FreshThread
          IN  thread' = [thread EXCEPT ![t] =
                  [base EXCEPT
                     !.pc = "load_context",
                     !.messages = replace_or_add_messages(
                                      base.messages, <<HumanMessage(content)>>),
                     !.inbound = content,
                     !.identity = identity,
                     !.all_messages = <<>>,
                     !.should_save = FALSE,
                     !.tool_rounds = 0,
                     !.prompt = NoSummary]]
    /\ turns_started' = turns_started + 1
    /\ UNCHANGED <<clock, conversations, messages>>
    /\ UNCHANGED outsideTurn

load_context(t) ==
    /\ thread[t].pc = "load_context"
    /\    LET st == thread[t]
              all_messages == st.messages
              new_user_message == all_messages[LastHumanIndex(all_messages)]
              replace_marker == SystemMessage(REPLACE_MARKER)
          IN  IF st.identity # "ok"
              THEN \* early return: the marker and the new message only
                   /\ thread' = [thread EXCEPT ![t] =
                         [st EXCEPT
                            !.pc = "assistant",
                            !.all_messages = all_messages,
                            !.messages = replace_or_add_messages(
                                all_messages, <<replace_marker, new_user_message>>)]]
                   /\ UNCHANGED <<conversations, messages>>
              ELSE \E active \in {get_active_conversation(
                                        clock, conversation_timeout_hours)} :
                   \E convs \in {IF active = 0
                                 THEN create_conversation(conversations, clock)
                                 ELSE conversations} :
                   \E conversation_id \in {IF active = 0 THEN Len(convs)
                                           ELSE active} :
                   \E conversation_summary \in {convs[conversation_id].summary} :
                   \E db_messages \in
                         {IF conversation_summary # NoSummary
                          THEN get_conversation_messages(conversation_id, ContextLimit)
                          ELSE get_conversation_messages(conversation_id, 0)} :
                   \E historical_messages \in {db_messages_to_langchain(db_messages)} :
                   \E should_save \in
                         {~( /\ db_messages # <<>>
                             /\ IsDuplicate(db_messages[Len(db_messages)],
                                            new_user_message.content) )} :
                   \E final_messages \in
                         {<<replace_marker>> \o historical_messages
                              \o <<new_user_message>>} :
                       /\ messages' =
                             IF should_save
                             THEN add_message_row(messages, conversation_id, "human",
                                                  new_user_message.content)
                             ELSE messages
                       /\ conversations' =
                             IF should_save
                             THEN add_message_conversation(convs, conversation_id, clock)
                             ELSE convs
                       /\ thread' = [thread EXCEPT ![t] =
                             [st EXCEPT
                                !.pc = "assistant",
                                !.all_messages = all_messages,
                                !.should_save = should_save,
                                !.conversation_id = conversation_id,
                                !.conversation_summary =
                                    IF conversation_summary # NoSummary
                                    THEN conversation_summary ELSE @,
                                !.messages = replace_or_add_messages(
                                                 all_messages, final_messages)]]
    /\ UNCHANGED <<clock, turns_started>>
    /\ UNCHANGED outsideTurn

should_continue_AlwaysEnd(state_messages) == "save_final_response"

\* should_continue: "tools" when the last message carries tool calls, END
\* (mapped to save_final_response) otherwise, also for an empty list
should_continue(state_messages) ==
    IF state_messages = <<>> THEN "save_final_response"
    ELSE IF state_messages[Len(state_messages)].tool_calls THEN "tools"
    ELSE "save_final_response"

\* the LLM answers with text, with nothing, or with tool calls; an exception
\* of the LLM call is not caught and ends the turn
assistant(t) ==
    /\ thread[t].pc = "assistant"
    /\ \E outcome \in {"reply", "empty", "tool_calls", "raise"} :
          /\ outcome = "tool_calls" => thread[t].tool_rounds < MaxToolRounds
          /\ LET response ==
                     IF outcome = "reply" THEN AIMessage(ReplyContent, FALSE)
                     ELSE IF outcome = "empty" THEN AIMessage("", FALSE)
                     ELSE AIMessage("", TRUE)
             IN  thread' = [thread EXCEPT ![t] =
                    IF outcome = "raise" THEN [@ EXCEPT !.pc = "failed"]
                    ELSE [@ EXCEPT
                            !.messages = replace_or_add_messages(@, <<response>>),
                            !.pc = should_continue(
                                       replace_or_add_messages(
                                           thread[t].messages, <<response>>))]]
    /\ UNCHANGED <<clock, conversations, messages, turns_started>>
    /\ UNCHANGED outsideTurn

\* ToolNode(tools): one ToolMessage per requested call
tools(t) ==
    /\ thread[t].pc = "tools"
    /\ thread' = [thread EXCEPT ![t] =
          [@ EXCEPT !.messages = replace_or_add_messages(@, <<ToolMessage("result")>>),
                    !.tool_rounds = @ + 1,
                    !.pc = "assistant"]]
    /\ UNCHANGED <<clock, conversations, messages, turns_started>>
    /\ UNCHANGED outsideTurn

IsFinalReply_AnyAI(last_msg) == last_msg.type = "ai"

\* isinstance(last_msg, AIMessage) and last_msg.content and not tool_calls
IsFinalReply(last_msg) ==
    /\ last_msg.type = "ai"
    /\ last_msg.content # ""
    /\ ~last_msg.tool_calls

save_final_response(t) ==
    /\ thread[t].pc = "save_final_response"
    /\ LET st == thread[t]
           last_msg == st.messages[Len(st.messages)]
           saves == /\ st.conversation_id # 0
                    /\ st.messages # <<>>
                    /\ IsFinalReply(last_msg)
       IN  /\ messages' =
                 IF saves
                 THEN add_message_row(messages, st.conversation_id, "ai",
                                      last_msg.content)
                 ELSE messages
           /\ conversations' =
                 IF saves
                 THEN add_message_conversation(conversations, st.conversation_id, clock)
                 ELSE conversations
    /\ thread' = [thread EXCEPT ![t].pc = "summarize_if_needed"]
    /\ UNCHANGED <<clock, turns_started>>
    /\ UNCHANGED outsideTurn

summarize_except_DropsSummary(convs, conversation_id) ==
    [convs EXCEPT ![conversation_id].summary = NoSummary]

\* except Exception as e: print(...); return {} -- the conversations table
\* as the handler of a failed summarization leaves it
summarize_except(convs, conversation_id) == convs

summarize_if_needed(t) ==
    /\ thread[t].pc = "summarize_if_needed"
    /\ \E conversation_id \in {thread[t].conversation_id} :
       \E db_messages \in {get_conversation_messages(conversation_id, 0)} :
       \E message_count \in {Len(db_messages)} :
       \E conversation \in {get_active_conversation(clock,
                                                    conversation_timeout_hours)} :
       \E existing_summary \in {IF conversation # 0
                                THEN conversations[conversation].summary
                                ELSE NoSummary} :
       \E prompt \in {SummaryPrompt(existing_summary, db_messages)} :
           IF conversation_id = 0 \/ message_count <= MAX_MESSAGES_BEFORE_SUMMARY
           THEN /\ thread' = [thread EXCEPT ![t].pc = "done"]
                /\ UNCHANGED conversations
           ELSE \/ \* llm.invoke returned: store the new summary
                   /\ conversations' = [conversations EXCEPT
                          ![conversation_id].summary = LLMSummary(prompt)]
                   /\ thread' = [thread EXCEPT
                          ![t].pc = "done",
                          ![t].prompt = prompt,
                          ![t].conversation_summary = LLMSummary(prompt)]
                \/ \* llm.invoke raised: caught, nothing is written
                   /\ thread' = [thread EXCEPT ![t].pc = "done",
                                               ![t].prompt = prompt]
                   /\ conversations' =
                         summarize_except(conversations, conversation_id)
    /\ UNCHANGED <<clock, messages, turns_started>>
    /\ UNCHANGED outsideTurn

\* time passes
Tick ==
    /\ \E d \in TickHours :
          /\ clock + d <= MaxClock
          /\ clock' = clock + d
    /\ UNCHANGED <<conversations, messages, thread, turns_started>>
    /\ UNCHANGED outsideTurn

TurnNext ==
    \/ \E t \in Threads :
          \/ StartTurn(t) \/ load_context(t) \/ assistant(t) \/ tools(t)
          \/ save_final_response(t) \/ summarize_if_needed(t)
    \/ Tick

TurnSpec == TurnInit /\ [][TurnNext]_vars

(***************************************************************************)
(* Concurrent turns of one session, one step per database transaction:     *)
(* each db.* call of load_context and of save_final_response opens its own *)
(* connection and commits on its own (database.py get_connection), so the  *)
(* turns of two graph.ainvoke calls interleave between the calls.          *)
(***************************************************************************)
\* agent.py 266: conversation = db.get_active_conversation(session["id"], 2)
LoadGetActive(t) ==
    /\ TurnOver(t)
    /\ turns_started < MaxTurns
    /\ \E content \in InboundContents :
          LET active == get_active_conversation(clock, conversation_timeout_hours)
          IN  thread' = [thread EXCEPT ![t] =
                  [FreshThread EXCEPT
                     !.pc = IF active = 0 THEN "create_conversation"
                            ELSE "get_conversation_messages",
                     !.inbound = content,
                     !.identity = "ok",
                     !.conversation_id = active]]
    /\ turns_started' = turns_started + 1
    /\ UNCHANGED <<clock, conversations, messages>>
    /\ UNCHANGED outsideTurn

\* agent.py 268-269: if not conversation: db.create_conversation(session["id"])
LoadCreateConversation(t) ==
    /\ thread[t].pc = "create_conversation"
    /\ conversations' = create_conversation(conversations, clock)
    /\ thread' = [thread EXCEPT
                    ![t].conversation_id = Len(conversations) + 1,
                    ![t].pc = "get_conversation_messages"]
    /\ UNCHANGED <<clock, messages, turns_started>>
    /\ UNCHANGED outsideTurn

\* agent.py 272-304: the summary of the conversation row in hand, the stored
\* messages and the duplicate guard
LoadGetMessages(t) ==
    /\ thread[t].pc = "get_conversation_messages"
    /\ LET st == thread[t]
           conversation_summary == conversations[st.conversation_id].summary
           db_messages ==
               IF conversation_summary # NoSummary
               THEN get_conversation_messages(st.conversation_id, ContextLimit)
               ELSE get_conversation_messages(st.conversation_id, 0)
           should_save ==
               ~( /\ db_messages # <<>>
                  /\ IsDuplicate(db_messages[Len(db_messages)], st.inbound) )
       IN  thread' = [thread EXCEPT
                        ![t].should_save = should_save,
                        ![t].conversation_summary = conversation_summary,
                        ![t].messages = db_messages_to_langchain(db_messages)
                                            \o <<HumanMessage(st.inbound)>>,
                        ![t].pc = IF should_save THEN "add_message"
                                  ELSE "save_final_response"]
    /\ UNCHANGED <<clock, conversations, messages, turns_started>>
    /\ UNCHANGED outsideTurn

\* agent.py 305-310: db.add_message(conversation_id, "human", content), the
\* INSERT and the UPDATE of the conversation in one transaction
LoadAddMessage(t) ==
    /\ thread[t].pc = "add_message"
    /\ messages' = add_message_row(messages, thread[t].conversation_id, "human",
                                   thread[t].inbound)
    /\ conversations' = add_message_conversation(
                            conversations, thread[t].conversation_id, clock)
    /\ thread' = [thread EXCEPT ![t].pc = "save_final_response"]
    /\ UNCHANGED <<clock, turns_started>>
    /\ UNCHANGED outsideTurn

\* agent.py 447-451: the reply of the turn, if the LLM gave one, goes in with
\* the same db.add_message
SaveReply(t) ==
    /\ thread[t].pc = "save_final_response"
    /\ \E replied \in BOOLEAN :
          /\ messages' =
                IF replied
                THEN add_message_row(messages, thread[t].conversation_id, "ai",
                                     ReplyContent)
                ELSE messages
          /\ conversations' =
                IF replied
                THEN add_message_conversation(
                         conversations, thread[t].conversation_id, clock)
                ELSE conversations
    /\ thread' = [thread EXCEPT ![t].pc = "done"]
    /\ UNCHANGED <<clock, turns_started>>
    /\ UNCHANGED outsideTurn

SessionNext ==
    \/ \E t \in Threads :
          \/ LoadGetActive(t) \/ LoadCreateConversation(t) \/ LoadGetMessages(t)
          \/ LoadAddMessage(t) \/ SaveReply(t)
    \/ Tick

SessionSpec == TurnInit /\ [][SessionNext]_vars

(***************************************************************************)
(* Consecutive turns of one session, each run to completion by chat_sync   *)
(* before the next starts, every stored message with a text of its own.    *)
(***************************************************************************)
MaxChats == 4   \* turns run one after another

\* the text of the i-th message ever stored
MessageTexts ==
    << "m1", "m2", "m3", "m4", "m5", "m6", "m7", "m8",
       "m9", "m10", "m11", "m12", "m13", "m14", "m15", "m16" >>

\* the rows of a conversation in a messages table, in insertion order
StoredIn(rows, conversation_id) ==
    LET idx == SortedSeqOf({i \in 1..Len(rows) :
                               rows[i].conversation_id = conversation_id})
    IN  [k \in 1..Len(idx) |-> rows[idx[k]]]

\* load_context of a turn: the conversation, the guard and the insert; the
\* inbound message is a new text, or the last stored text sent again
chat_load_context(resend) ==
    LET active == get_active_conversation(clock, conversation_timeout_hours)
        convs == IF active = 0 THEN create_conversation(conversations, clock)
                 ELSE conversations
        conversation_id == IF active = 0 THEN Len(convs) ELSE active
        stored == get_conversation_messages(conversation_id, 0)
        inbound == IF resend /\ stored # <<>>
                   THEN stored[Len(stored)].content
                   ELSE MessageTexts[Len(messages) + 1]
        should_save == ~( /\ stored # <<>>
                          /\ IsDuplicate(stored[Len(stored)], inbound) )
    IN  [ conversation_id |-> conversation_id,
          rows |-> IF should_save
                   THEN add_message_row(messages, conversation_id, "human", inbound)
                   ELSE messages,
          convs |-> IF should_save
                    THEN add_message_conversation(convs, conversation_id, clock)
                    ELSE convs ]

\* assistant answers with a new text or with nothing; save_final_response
chat_save_final_response(loaded, outcome) ==
    LET reply == AIMessage(IF outcome = "reply"
                           THEN MessageTexts[Len(loaded.rows) + 1] ELSE "", FALSE)
    IN  IF IsFinalReply(reply)
        THEN [ conversation_id |-> loaded.conversation_id,
               rows |-> add_message_row(loaded.rows, loaded.conversation_id,
                                        "ai", reply.content),
               convs |-> add_message_conversation(
                             loaded.convs, loaded.conversation_id, clock) ]
        ELSE loaded

\* graph.invoke on a fresh state: load_context, assistant (answering with a
\* reply or with nothing; tool rounds leave no trace in the store),
\* save_final_response and summarize_if_needed, in that order
chat_sync ==
    /\ turns_started < MaxChats
    /\ Len(messages) + 2 <= Len(MessageTexts)
    /\ \E resend \in BOOLEAN, outcome \in {"reply", "empty"},
          summary_llm \in {"ok", "raise"} :
          \* load_context
          \E loaded \in {chat_load_context(resend)} :
          \* assistant and save_final_response
          \E saved \in {chat_save_final_response(loaded, outcome)} :
          \* summarize_if_needed
          \E db_messages \in {StoredIn(saved.rows, saved.conversation_id)} :
             LET convs == saved.convs
                 prompt == SummaryPrompt(convs[saved.conversation_id].summary,
                                         db_messages)
             IN  /\ messages' = saved.rows
                 /\ conversations' =
                       IF /\ Len(db_messages) > MAX_MESSAGES_BEFORE_SUMMARY
                          /\ summary_llm = "ok"
                       THEN [convs EXCEPT ![saved.conversation_id].summary =
                                              LLMSummary(prompt)]
                       ELSE convs
    /\ turns_started' = turns_started + 1
    /\ UNCHANGED <<clock, thread>>
    /\ UNCHANGED outsideTurn

MemoryNext == chat_sync

MemorySpec == TurnInit /\ [][MemoryNext]_vars

(***************************************************************************)
(* One turn of the graph with several tool rounds: the assistant node and   *)
(* ToolNode as they alternate, the list the assistant sends to the LLM, and *)
(* the nodes that follow the loop.  Every LLM call and every tool returns.  *)
(***************************************************************************)
MaxGraphRounds == 7    \* rounds of tools -> assistant in one turn
MaxToolCalls == 2      \* the most tool calls one assistant message carries

MAX_MESSAGES == 20

\* get_safe_messages_for_llm(messages): messages_list[-MAX_MESSAGES:]
get_safe_messages_for_llm(state_messages) ==
    IF state_messages = <<>> THEN <<>>
    ELSE IF Len(state_messages) <= MAX_MESSAGES THEN state_messages
    ELSE SubSeq(state_messages, Len(state_messages) - MAX_MESSAGES + 1,
                Len(state_messages))

\* llm_messages = [SystemMessage(content=system_prompt)] + recent_messages
llm_messages(state_messages) ==
    <<SystemMessage("system_prompt")>> \o get_safe_messages_for_llm(state_messages)

\* the assistant node for a response of the LLM: the response goes through
\* the reducer and should_continue picks the next node
assistant_returns(t, response) ==
    /\ thread[t].pc = "assistant"
    /\ \E state_messages \in
            {replace_or_add_messages(thread[t].messages, <<response>>)} :
          thread' = [thread EXCEPT ![t] =
              [@ EXCEPT !.messages = state_messages,
                        !.pc = should_continue(state_messages)]]
    /\ UNCHANGED <<clock, conversations, messages, turns_started>>
    /\ UNCHANGED outsideTurn

\* the LLM returns a message without tool calls, with text or without
assistant_replies(t) ==
    \E content \in {ReplyContent, ""} :
        assistant_returns(t, AIMessage(content, FALSE))

\* the LLM returns a message with tool calls
assistant_calls_tools(t) ==
    /\ thread[t].tool_rounds < MaxGraphRounds
    /\ assistant_returns(t, AIMessage("", TRUE))

\* response = llm_with_tools.invoke(llm_messages)
llm_with_tools_invoke(t) == assistant_replies(t) \/ assistant_calls_tools(t)

tools_edge_End == "save_final_response"

\* builder.add_edge("tools", "assistant")
tools_edge == "assistant"

\* ToolNode(tools): one ToolMessage per call of the last assistant message,
\* which carries one call or several (nothing before this step reads how
\* many, so the number is drawn here)
ToolNode(t) ==
    /\ thread[t].pc = "tools"
    /\ \E calls \in {1, MaxToolCalls} :
          thread' = [thread EXCEPT ![t] =
              [@ EXCEPT !.messages = replace_or_add_messages(
                                         @, [i \in 1..calls |-> ToolMessage("result")]),
                        !.tool_rounds = @ + 1,
                        !.pc = tools_edge]]
    /\ UNCHANGED <<clock, conversations, messages, turns_started>>
    /\ UNCHANGED outsideTurn

\* a stored conversation as in TurnInit and one graph.invoke on a fresh state:
\* the input message went through the reducer and load_context is next
GraphInit ==
    /\ SlotIdle
    /\ ProfileIdle
    /\ BookingIdle
    /\ clock = StartClock
    /\ \E n \in SeedSizes :
          /\ messages = SeedRows(n)
          /\ conversations =
                IF n = 0 THEN <<>>
                ELSE << [status |-> "active", last_message_at |-> StartClock,
                         summary |-> SeedSummary(n), message_count |-> n] >>
    /\ \E content \in InboundContents, identity \in {"ok", "unresolved", "no_client"} :
          thread = [t \in Threads |->
              IF t = 1
              THEN [FreshThread EXCEPT
                      !.pc = "load_context",
                      !.messages = replace_or_add_messages(
                                       <<>>, <<HumanMessage(content)>>),
                      !.inbound = content,
                      !.identity = identity]
              ELSE FreshThread]
    /\ turns_started = 1

GraphNext ==
    \E t \in Threads :
        \/ load_context(t) \/ llm_with_tools_invoke(t) \/ ToolNode(t)
        \/ save_final_response(t) \/ summarize_if_needed(t)

GraphSpec == GraphInit /\ [][GraphNext]_vars

\* the LLM returns a message without tool calls, in whichever turn
tool_free_response == \E t \in Threads : assistant_replies(t)

\* The nodes of a turn run one after the other, so at most one step of the
\* turn is enabled at a time: weak fairness of the next step says that the
\* node that was entered returns.  Strong fairness of the tool-free response
\* says that the LLM, asked again and again, eventually answers without tool
\* calls.
FairGraphSpec ==
    /\ GraphSpec
    /\ WF_vars(GraphNext)
    /\ SF_vars(tool_free_response)

(***************************************************************************)
(* Claims about the appointment tools (checked under BookingSpec).         *)
(***************************************************************************)
CreateDone(p) == call[p].op = "create" /\ call[p].pc = "done"

SameSlotRequested(p, q) ==
    /\ call[p].calendar_id = call[q].calendar_id
    /\ call[p].date = call[q].date
    /\ call[p].time = call[q].time

\* C1: of two create_appointment calls for the same calendar, date and start
\* time, each of which saw that start as the only free slot, at most one
\* persists a scheduled appointment.
C1_AsStated ==
    \A p, q \in Procs :
        ( /\ p # q
          /\ CreateDone(p) /\ CreateDone(q)
          /\ SameSlotRequested(p, q)
          /\ call[p].available_slots = <<call[p].time>>
          /\ call[q].available_slots = <<call[q].time>> )
        => ~(call[p].result = "success" /\ call[q].result = "success")

Overlapping(a, b) ==
    /\ MinutesOf(a.start_time) < MinutesOf(b.end_time)
    /\ MinutesOf(b.start_time) < MinutesOf(a.end_time)

\* C2: no two appointments with status scheduled for the same calendar and
\* date have overlapping [start, end) ranges.
C2_AsStated ==
    \A i, j \in 1..Len(appointments) :
        ( /\ i # j
          /\ appointments[i].status = "scheduled"
          /\ appointments[j].status = "scheduled"
          /\ appointments[i].calendar_id = appointments[j].calendar_id
          /\ appointments[i].appointment_date = appointments[j].appointment_date )
        => ~Overlapping(appointments[i], appointments[j])

\* a call whose availability check read the external calendar successfully
\* and found no marker event for the date
C5_Case(p) ==
    /\ call[p].op \in {"create", "reschedule"}
    /\ call[p].markers_status = "ok"
    /\ call[p].markers = <<>>

\* C5: for a calendar with an external calendar, a successful fetch that
\* returns zero marker events for the date yields an empty slot list,
\* whatever the default schedule and the local appointments are.
C5_NoMarkerEmpty ==
    \A p \in Procs : C5_Case(p) => call[p].available_slots = <<>>

\* the case with a default schedule configured and a local appointment
\* recorded for the calendar
C5_Witness ==
    \E p \in Procs :
        /\ C5_Case(p)
        /\ call[p].result = "rejected"
        /\ Calendars[call[p].calendar_id].default_start_time # Calendars[call[p].calendar_id].default_end_time
        /\ \E i \in 1..Len(appointments) :
              appointments[i].calendar_id = call[p].calendar_id

\* process p starts a tool call of the given kind in this step
StartsCall(p, op) ==
    /\ Finished(p)
    /\ calls_started' = calls_started + 1
    /\ call'[p] # call[p]
    /\ call'[p].op = op

\* C11: cancel_appointment on an appointment whose status is already
\* cancelled returns the friendly message at once: no row and no calendar
\* event changes and the call issues neither a delete nor an update.
C11_CancelIdempotent ==
    [][\A p \in Procs :
          ( /\ StartsCall(p, "cancel")
            /\ call'[p].appointment_id <= Len(appointments)
            /\ appointments[call'[p].appointment_id].status = "cancelled" )
          => /\ call'[p].pc = "done"
             /\ call'[p].result = "already_cancelled"
             /\ appointments' = appointments
             /\ gcal_events' = gcal_events]_vars

\* a second cancel, with another reason, of an appointment cancelled before:
\* the row still carries the first reason and the first timestamp
C11_Witness ==
    \E p \in Procs :
        /\ call[p].op = "cancel" /\ call[p].pc = "done"
        /\ call[p].result = "already_cancelled"
        /\ LET row == appointments[call[p].appointment_id]
           IN  /\ row.status = "cancelled"
               /\ row.cancellation_reason # call[p].reason
               /\ row.cancelled_by = "user"
               /\ row.cancelled_at = 1

\* C13: no tool invocation raises: every finished tool call has returned
\* structured data or a descriptive string.
C13_AsStated ==
    \A p \in Procs : call[p].pc = "done" => call[p].result # "raised"

\* the calendar write of a call did not produce an event
CalendarWriteFailed(c) == c.google_event_id \in {NoneId, PairId(NoEvent)}

\* C14: a create whose calendar write fails still reports success and leaves
\* a scheduled appointment with its snapshots and a null external event id.
C14_AsStated ==
    \A p \in Procs :
        ( /\ call[p].op = "create" /\ call[p].pc = "done"
          /\ call[p].result \in {"success", "raised"}
          /\ CalendarWriteFailed(call[p]) )
        => /\ call[p].result = "success"
           /\ \E i \in 1..Len(appointments) :
                 /\ appointments[i].calendar_id = call[p].calendar_id
                 /\ appointments[i].appointment_date = call[p].date
                 /\ appointments[i].start_time = call[p].time
                 /\ appointments[i].service_duration_snapshot = call[p].duration
                 /\ appointments[i].google_event_id = NoEvent
                 /\ appointments[i].status \in {"scheduled", "cancelled"}

\* p takes a step of a reschedule_appointment call
RescheduleStep(p) ==
    /\ call'[p] # call[p]
    /\ call'[p].op = "reschedule"

RescheduleRejections == {"not_found", "not_scheduled", "bad_format", "rejected"}

C20_RejectsUnavailable ==
    [][\A p \in Procs :
          ( /\ StartsCall(p, "create")
            /\ call'[p].result \notin {"not_found", "bad_format"}
            /\ call'[p].time \notin Range(call'[p].available_slots) )
          => LET c == call'[p]
                 n == Len(c.available_slots)
             IN  /\ c.pc = "done"
                 /\ c.result = "rejected"
                 /\ c.google_event_id = NoneId
                 /\ appointments' = appointments
                 /\ gcal_events' = gcal_events
                 /\ Len(c.alternatives) <= 5
                 /\ c.alternatives =
                       SubSeq(c.available_slots, 1, IF n < 5 THEN n ELSE 5)]_vars

\* a rejected create that had six free slots to offer and named five
C20_Witness ==
    \E p \in Procs :
        /\ call[p].op = "create" /\ call[p].pc = "done"
        /\ call[p].result = "rejected"
        /\ Len(call[p].available_slots) = 6
        /\ Len(call[p].alternatives) = 5
        /\ call[p].time \notin Range(call[p].available_slots)
        /\ call[p].alternatives[1] = call[p].available_slots[1]

\* the slot list of the degraded fallback: the default schedule as the only
\* block, the scheduled local appointments of the calendar and date as booked
DefaultScheduleSlots(calendar_id, date, duration) ==
    LET calendar == Calendars[calendar_id]
        apts == get_appointments_by_calendar_and_date(calendar_id, date)
        booked == [k \in 1..Len(apts) |-> <<apts[k].start_time, apts[k].end_time>>]
    IN  calculate_available_slots(
            << <<calendar.default_start_time, calendar.default_end_time>> >>,
            booked, duration)

\* C21: when the read of the external calendar fails, the availability a
\* create computes is the one of the default schedule with the scheduled
\* local appointments as the booked blocks.
C21_AsStated ==
    [][\A p \in Procs :
          ( /\ StartsCall(p, "create")
            /\ call'[p].markers_status \in {"http_error", "raise"} )
          => call'[p].available_slots =
                DefaultScheduleSlots(call'[p].calendar_id, call'[p].date,
                                     call'[p].duration)]_vars

\* the appointment a slot of the given start and duration would be
SlotRange(start, duration) ==
    [start_time |-> start, end_time |-> EndTime(start, duration)]

EventIds(events) == {events[k].id : k \in 1..Len(events)}

WorkingFetch(calendar_id) ==
    IF Calendars[calendar_id].google_calendar_id = "" THEN NotFetched
    ELSE [ markers_status |-> "ok",
           markers |-> << <<Time(9, 0), Time(10, 20)>> >>,
           booked_status |-> "ok" ]

\* nothing but appointment i itself and its own event occupies its time range
NothingElseBooked(i) ==
    LET apt == appointments[i]
        gid == Calendars[apt.calendar_id].google_calendar_id
    IN  /\ \A j \in 1..Len(appointments) :
              ( /\ j # i
                /\ appointments[j].status = "scheduled"
                /\ appointments[j].calendar_id = apt.calendar_id
                /\ appointments[j].appointment_date = apt.appointment_date )
              => ~Overlapping(appointments[j], apt)
        /\ \A k \in 1..Len(gcal_events) :
              ( /\ gcal_events[k].id # apt.google_event_id
                /\ gcal_events[k].calendar = gid
                /\ gcal_events[k].date = apt.appointment_date )
              => ~Overlapping([start_time |-> gcal_events[k].start,
                               end_time |-> gcal_events[k].end], apt)

C31_CancelCompletes ==
    [][\A p \in Procs :
          /\ ( /\ StartsCall(p, "cancel")
               /\ call'[p].appointment_id <= Len(appointments)
               /\ appointments[call'[p].appointment_id].status = "scheduled" )
             => /\ call'[p].pc =
                      IF appointments[call'[p].appointment_id].google_event_id
                             # NoEvent
                      THEN "calendar" ELSE "persist"
                /\ appointments' = appointments /\ gcal_events' = gcal_events
          /\ ( /\ call[p].op = "cancel" /\ call[p].pc = "calendar"
               /\ call'[p] # call[p] )
             => /\ call'[p].pc = "persist"
                /\ appointments' = appointments
          /\ ( /\ call[p].op = "cancel" /\ call[p].pc = "persist"
               /\ call'[p] # call[p] )
             => LET row == appointments'[call[p].appointment_id]
                IN  /\ call'[p].pc = "done" /\ call'[p].result = "success"
                    /\ row.status = "cancelled"
                    /\ row.cancellation_reason = call[p].reason
                    /\ row.cancelled_by = "user"
                    /\ row.cancelled_at > 0
                    /\ gcal_events' = gcal_events]_vars

\* a cancel that returned after a failed delete: the appointment is cancelled
\* with the reason of the call while its event is still in the calendar
C31_Witness ==
    \E p \in Procs :
        /\ call[p].op = "cancel" /\ call[p].pc = "done"
        /\ call[p].result = "success"
        /\ call[p].google_event_id # NoEvent
        /\ call[p].google_event_id \in EventIds(gcal_events)
        /\ LET row == appointments[call[p].appointment_id]
           IN  /\ row.status = "cancelled"
               /\ row.cancellation_reason = call[p].reason
               /\ row.cancelled_by = "user"
               /\ row.cancelled_at = 1

\* two create_appointment calls with the same arguments on a calendar that is
\* kept in the local store only (no calendar read or write of either call can
\* fail), both past their look-ups
C36_SameCreateTwice(p, q) ==
    /\ p # q
    /\ CreateDone(p) /\ CreateDone(q)
    /\ SameSlotRequested(p, q)
    /\ call[p].duration = call[q].duration
    /\ Calendars[call[p].calendar_id].google_calendar_id = ""
    /\ call[p].result \in {"success", "rejected"}
    /\ call[q].result \in {"success", "rejected"}

\* C36: tool calls of one assistant message share no mutable state, so their
\* results do not depend on the order or interleaving of their execution.
\* Two create_appointment calls with the same arguments differ only in
\* position, hence each must get the result the other gets, and (run one
\* after the other the second sees the row of the first) no more than one of
\* them may add a row.
C36_AsStated ==
    \A p, q \in Procs :
        C36_SameCreateTwice(p, q) =>
            /\ call[p].result = call[q].result
            /\ ~(call[p].result = "success" /\ call[q].result = "success")

(***************************************************************************)
(* Claims about the turn graph (checked under TurnSpec).                   *)
(***************************************************************************)
\* thread t takes its load_context step
LoadStep(t) ==
    thread[t].pc = "load_context" /\ thread'[t].pc = "assistant"

\* thread t takes its summarize_if_needed step
SummarizeStep(t) ==
    thread[t].pc = "summarize_if_needed" /\ thread'[t].pc = "done"

\* the inbound message of t equals the last stored message of the active
\* conversation, and that message has the user role
C3_Resubmission(t) ==
    LET c == get_active_conversation(clock, conversation_timeout_hours)
        stored == get_conversation_messages(c, 0)
    IN  /\ c # 0
        /\ stored # <<>>
        /\ stored[Len(stored)].role = "human"
        /\ stored[Len(stored)].content = thread[t].inbound

\* C3: load_context inserts nothing when the inbound message equals the
\* immediately preceding stored message of the active conversation and that
\* message has the user role: the messages table and the conversation's
\* message_count are as before, however often the message is resubmitted.
C3_InboundIdempotence ==
    [][\A t \in Threads :
          (LoadStep(t) /\ C3_Resubmission(t))
          => (messages' = messages /\ conversations' = conversations)]_vars

\* a resubmission that load_context skipped after resolving the identity:
\* the stored history ends with the user's message and holds it once
C3_Witness ==
    \E t \in Threads :
        /\ thread[t].pc = "assistant" /\ thread[t].tool_rounds = 0
        /\ thread[t].identity = "ok"
        /\ ~thread[t].should_save
        /\ LET stored == get_conversation_messages(thread[t].conversation_id, 0)
           IN  /\ stored # <<>>
               /\ stored[Len(stored)].role = "human"
               /\ stored[Len(stored)].content = thread[t].inbound
               /\ Len(stored) >= 2 => stored[Len(stored) - 1].role = "ai"

\* the list a turn is to work on, from the persisted state and the inbound
\* message alone
C4_Rebuilt(t) ==
    LET c == get_active_conversation(clock, conversation_timeout_hours)
        stored == get_conversation_messages(c, 0)
        loaded == IF c # 0 /\ conversations[c].summary # NoSummary
                  THEN LastN(stored, ContextLimit) ELSE stored
    IN  IF thread[t].identity # "ok" THEN <<HumanMessage(thread[t].inbound)>>
        ELSE db_messages_to_langchain(loaded) \o <<HumanMessage(thread[t].inbound)>>

\* C4: the message list load_context leaves in the graph state is a function
\* of the persisted state and the inbound message; the messages the thread
\* carried over do not enter it.
C4_Statelessness ==
    [][\A t \in Threads : LoadStep(t) => thread'[t].messages = C4_Rebuilt(t)]_vars

\* a load over a state that carried messages of an earlier turn over,
\* among them messages the store never held
C4_Witness ==
    \E t \in Threads :
        /\ thread[t].pc = "assistant" /\ thread[t].tool_rounds = 0
        /\ thread[t].identity = "ok"
        /\ Len(thread[t].all_messages) > 1
        /\ \E i \in 1..Len(thread[t].all_messages) :
              thread[t].all_messages[i].type = "tool"
        /\ \A i \in 1..Len(thread[t].messages) :
              thread[t].messages[i].type # "tool"

\* C8: memory maintenance on a conversation with exactly 7 persisted messages
\* and no stored summary builds the summary from messages 1 through 6 (the
\* messages ShortTermMemory designates) and stores what the LLM returns; with
\* 6 messages or fewer it builds and stores nothing.
C8_AsStated ==
    [][\A t \in Threads :
          SummarizeStep(t) =>
              LET c == thread[t].conversation_id
                  stored == get_conversation_messages(c, 0)
                  first_six == get_messages_for_summarization(stored, NoSummary)[2]
              IN  /\ ( /\ c # 0
                       /\ Len(stored) = 7
                       /\ conversations[c].summary = NoSummary )
                     => /\ thread'[t].prompt =
                              <<"create", NoSummary,
                                format_db_messages_for_summary(first_six)>>
                        /\ conversations'[c].summary
                              \in {NoSummary, LLMSummary(thread'[t].prompt)}
                  /\ ( c # 0 /\ Len(stored) <= 6 )
                     => /\ thread'[t].prompt = NoSummary
                        /\ conversations' = conversations]_vars

\* C9: memory maintenance on a conversation with more than 6 persisted
\* messages and a stored summary gives the LLM that summary and the most
\* recent four messages only, and what the LLM returns replaces the stored
\* summary of that conversation.
C9_AsStated ==
    [][\A t \in Threads :
          SummarizeStep(t) =>
              LET c == thread[t].conversation_id
                  stored == get_conversation_messages(c, 0)
              IN  ( /\ c # 0
                    /\ Len(stored) > MAX_MESSAGES_BEFORE_SUMMARY
                    /\ conversations[c].summary # NoSummary )
                  => /\ thread'[t].prompt =
                           <<"update", conversations[c].summary,
                             format_db_messages_for_summary(
                                 LastN(stored, RecentForUpdate))>>
                     /\ conversations'[c].summary
                           \in {conversations[c].summary,
                                LLMSummary(thread'[t].prompt)}]_vars

\* C12: a turn whose identity does not resolve ends without a reply: none of
\* its steps invokes the LLM, fails the turn, or writes to the conversations
\* or messages tables.
C12_AsStated ==
    [][\A t \in Threads :
          ( /\ thread[t].identity \in {"unresolved", "no_client"}
            /\ thread'[t] # thread[t] )
          => /\ thread[t].pc # "assistant"
             /\ thread'[t].pc # "failed"
             /\ messages' = messages
             /\ conversations' = conversations]_vars

AIRows(rows) == {i \in 1..Len(rows) : rows[i].role = "ai"}

\* C15: assistant messages are written only by save_final_response, one row
\* holding the final reply of the turn, which is non-empty and carries no
\* tool calls; a turn passes through save_final_response once, so it writes
\* at most one assistant message.
C15_OnlyFinalReply ==
    [][/\ AIRows(messages') # AIRows(messages) =>
            \E t \in Threads :
               LET st == thread[t]
                   last_msg == st.messages[Len(st.messages)]
               IN  /\ st.pc = "save_final_response"
                   /\ thread'[t].pc = "summarize_if_needed"
                   /\ st.messages # <<>>
                   /\ last_msg.type = "ai"
                   /\ last_msg.content # ""
                   /\ ~last_msg.tool_calls
                   /\ messages' = Append(messages,
                          [conversation_id |-> st.conversation_id,
                           role |-> "ai", content |-> last_msg.content])
       /\ \A t \in Threads :
             /\ ( thread'[t].pc = "save_final_response"
                  /\ thread[t].pc # "save_final_response" )
                => thread[t].pc = "assistant"
             /\ ( thread'[t].pc \in {"assistant", "tools"}
                  /\ thread[t].pc \notin {"assistant", "tools"} )
                => thread[t].pc = "load_context"
             /\ thread[t].pc = "save_final_response"
                => thread'[t].pc \in {"save_final_response", "summarize_if_needed"}
             /\ thread[t].pc = "summarize_if_needed"
                => thread'[t].pc \in {"summarize_if_needed", "done"}]_vars

\* a turn that went through a tool round has stored its inbound message and
\* then its final reply, and nothing of the tool exchange
C15_Witness ==
    \E t \in Threads :
        /\ thread[t].pc = "summarize_if_needed"
        /\ thread[t].tool_rounds = 1
        /\ thread[t].conversation_id # 0
        /\ Len(thread[t].messages) >= 4
        /\ Len(messages) >= 2
        /\ messages[Len(messages)] =
              [conversation_id |-> thread[t].conversation_id,
               role |-> "ai", content |-> ReplyContent]
        /\ messages[Len(messages) - 1].role = "human"

\* a conversation that a later load_context passed over: a newer conversation
\* of the session exists
PassedOver(c) == c < Len(conversations)

\* C17: load_context takes the active in-window conversation of the session
\* and otherwise creates a fresh one with an empty history; a conversation
\* that was passed over keeps its messages, counter, timestamp and summary
\* and no later turn selects it.
C17_AsStated ==
    [][/\ \A t \in Threads :
             (LoadStep(t) /\ thread[t].identity = "ok")
             => LET active == get_active_conversation(
                                  clock, conversation_timeout_hours)
                IN  IF active # 0
                    THEN /\ thread'[t].conversation_id = active
                         /\ Len(conversations') = Len(conversations)
                    ELSE /\ Len(conversations') = Len(conversations) + 1
                         /\ thread'[t].conversation_id = Len(conversations')
                         /\ thread'[t].messages = <<HumanMessage(thread[t].inbound)>>
       /\ \A c \in 1..Len(conversations) :
             PassedOver(c)
             => /\ conversations'[c] = conversations[c]
                /\ \A i \in (Len(messages) + 1)..Len(messages') :
                      messages'[i].conversation_id # c
                /\ \A t \in Threads :
                      LoadStep(t) => thread'[t].conversation_id # c]_vars

\* C25: the nodes of a turn run in the order load_context, assistant, rounds
\* of (tools, assistant), save_final_response, summarize_if_needed, done:
\* tools follows an assistant message exactly when it carries tool calls,
\* save_final_response and summarize_if_needed follow only a tool-free
\* assistant message and run once in a turn that completes (a turn the LLM
\* call aborts runs neither), and summarize_if_needed decides on a count
\* that includes the reply the turn has just persisted.
C25_NodeOrder ==
    [][\A t \in Threads :
          thread'[t] # thread[t]
          => LET pc == thread[t].pc
                 next_pc == thread'[t].pc
                 after == thread'[t].messages
                 c == thread[t].conversation_id
                 stored == get_conversation_messages(c, 0)
                 last_msg == thread[t].messages[Len(thread[t].messages)]
             IN  /\ pc \in {"idle", "done", "failed"} => next_pc = "load_context"
                 /\ pc = "load_context" => next_pc = "assistant"
                 /\ pc = "assistant"
                    => /\ next_pc \in {"tools", "save_final_response", "failed"}
                       /\ next_pc # "failed"
                          => /\ after[Len(after)].type = "ai"
                             /\ next_pc = "tools" <=> after[Len(after)].tool_calls
                 /\ pc = "tools" => next_pc = "assistant"
                 /\ pc = "save_final_response"
                    => /\ next_pc = "summarize_if_needed"
                       /\ last_msg.type = "ai" /\ ~last_msg.tool_calls
                 /\ pc = "summarize_if_needed"
                    => /\ next_pc = "done"
                       /\ c # 0
                          => /\ thread'[t].prompt # NoSummary
                                <=> Len(stored) > MAX_MESSAGES_BEFORE_SUMMARY
                             /\ last_msg.content # ""
                                => \E k \in 1..Len(stored) :
                                      /\ stored[k].role = "ai"
                                      /\ stored[k].content = last_msg.content]_vars

\* a completed turn with one tool round on a conversation that held five
\* messages: the inbound message and the reply make seven, and the summary
\* was written in that same turn
C25_Witness ==
    \E t \in Threads :
        /\ thread[t].pc = "done"
        /\ thread[t].tool_rounds = 1
        /\ thread[t].conversation_id = 1
        /\ Len(messages) = 7
        /\ \A k \in 1..7 : messages[k].conversation_id = 1
        /\ messages[6].role = "human"
        /\ messages[7] = [conversation_id |-> 1, role |-> "ai",
                          content |-> ReplyContent]
        /\ thread[t].prompt # NoSummary
        /\ conversations[1].summary = LLMSummary(thread[t].prompt)

\* the stored messages load_context loads for thread t: all of the active
\* conversation, or its last six when it has a summary
C26_Loaded(t) ==
    LET c == get_active_conversation(clock, conversation_timeout_hours)
        stored == get_conversation_messages(c, 0)
    IN  IF c = 0 THEN <<>>
        ELSE IF conversations[c].summary # NoSummary
        THEN LastN(stored, ContextLimit) ELSE stored

\* C26: the list load_context hands on holds the inbound message once, as
\* its last element: it is the loaded stored messages followed by the
\* inbound message when that was inserted, and the loaded stored messages
\* alone when the guard skipped the insert.
C26_AsStated ==
    [][\A t \in Threads :
          (LoadStep(t) /\ thread[t].identity = "ok")
          => thread'[t].messages =
                db_messages_to_langchain(C26_Loaded(t))
                    \o (IF messages' # messages
                        THEN <<HumanMessage(thread[t].inbound)>> ELSE <<>>)]_vars

\* C28: the summary summarize_if_needed gives the LLM as the existing one is
\* the summary of the conversation it writes to: never the summary of
\* another conversation, and never none when that conversation has one.
C28_AsStated ==
    [][\A t \in Threads :
          ( /\ SummarizeStep(t)
            /\ thread[t].conversation_id # 0
            /\ thread'[t].prompt # NoSummary )
          => thread'[t].prompt[2] =
                conversations[thread[t].conversation_id].summary]_vars

\* C32: when the LLM call of summarize_if_needed raises (the prompt was
\* built and its summary is not the stored one afterwards), the turn still
\* reaches done, the conversations table with the stored summary is exactly
\* as before and the stored messages are untouched.
C32_SummaryFailureContained ==
    [][\A t \in Threads :
          SummarizeStep(t)
          => LET c == thread[t].conversation_id
             IN  /\ messages' = messages
                 /\ ( /\ c # 0
                      /\ thread'[t].prompt # NoSummary
                      /\ conversations'[c].summary # LLMSummary(thread'[t].prompt) )
                    => conversations' = conversations]_vars /\
    [][\A t \in Threads :
          thread[t].pc = "summarize_if_needed" => thread'[t].pc # "failed"]_vars

\* a turn that is done after a failed summarization of a conversation that
\* had a summary: the summary is the old one, and the inbound message and
\* the reply of the turn are stored
C32_Witness ==
    \E t \in Threads :
        /\ thread[t].pc = "done"
        /\ thread[t].conversation_id = 1
        /\ thread[t].prompt # NoSummary
        /\ conversations[1].summary = SeedSummary(8)
        /\ Len(messages) = 10
        /\ messages[9] = [conversation_id |-> 1, role |-> "human",
                          content |-> thread[t].inbound]
        /\ messages[10] = [conversation_id |-> 1, role |-> "ai",
                           content |-> ReplyContent]

(***************************************************************************)
(* Claims about concurrent turns of a session (checked under SessionSpec). *)
(***************************************************************************)
ActiveInWindow ==
    {c \in 1..Len(conversations) :
        /\ conversations[c].status = "active"
        /\ InWindow(conversations[c].last_message_at, clock,
                    conversation_timeout_hours)}

\* C16: at every moment at most one conversation of the session is active
\* with last_message_at inside the timeout window, also when two turns run
\* load_context concurrently and both find no active conversation.
C16_AsStated == Cardinality(ActiveInWindow) <= 1

StoredFor(c) == {i \in 1..Len(messages) : messages[i].conversation_id = c}

\* C18: in every state the message_count of each conversation is the number
\* of messages stored for it, also while the inserts of concurrent turns
\* interleave: the INSERT and the counter UPDATE are one transaction.
C18_CountMatchesRows ==
    \A c \in 1..Len(conversations) :
        conversations[c].message_count = Cardinality(StoredFor(c))

\* two turns in flight on the same conversation, both past the insert of
\* their inbound message
C18_Witness ==
    \E c \in 1..Len(conversations) :
        /\ \A t \in Threads :
              /\ thread[t].pc = "save_final_response"
              /\ thread[t].conversation_id = c
              /\ thread[t].should_save
        /\ conversations[c].message_count >= 2
        /\ messages[Len(messages)].role = "human"
        /\ messages[Len(messages) - 1].role = "human"

\* C27: an inbound message delivered in two overlapping turns of a
\* conversation is stored once: no conversation holds the same user message
\* in two consecutive rows.
C27_AsStated ==
    \A c \in 1..Len(conversations) :
        LET rows == get_conversation_messages(c, 0)
        IN  \A k \in 1..(Len(rows) - 1) :
               ~( /\ rows[k].role = "human"
                  /\ rows[k + 1].role = "human"
                  /\ rows[k].content = rows[k + 1].content )

(***************************************************************************)
(* Claims about consecutive turns (checked under MemorySpec).              *)
(***************************************************************************)
RECURSIVE SummarizedTexts(_)
\* the texts that went into a stored summary: those of the prompt it was
\* made from and those of the summary that prompt built on
SummarizedTexts(summary) ==
    IF summary = NoSummary THEN {}
    ELSE LET prompt == summary[2]
         IN  {prompt[3][k][2] : k \in 1..Len(prompt[3])}
                 \cup SummarizedTexts(prompt[2])

\* C29: between turns, every stored message of a conversation that has a
\* summary is among the last six (which the next load_context loads raw) or
\* went into a summarization whose result was stored.
C29_AsStated ==
    \A c \in 1..Len(conversations) :
        conversations[c].summary # NoSummary
        => LET rows == get_conversation_messages(c, 0)
               raw == LastN(rows, ContextLimit)
           IN  \A k \in 1..Len(rows) :
                  \/ rows[k].content \in {raw[j].content : j \in 1..Len(raw)}
                  \/ rows[k].content \in SummarizedTexts(conversations[c].summary)

(***************************************************************************)
(* Claims about one turn with several tool rounds (checked under GraphSpec *)
(* and FairGraphSpec).                                                     *)
(***************************************************************************)
\* the place in the accumulated list of the assistant message that requested
\* the tool result at place i: the nearest earlier message with tool calls
\* (ToolNode appends the results right after it); 0 when there is none
Requester(msgs, i) ==
    CHOOSE j \in 0..(i - 1) :
        /\ j = 0 \/ msgs[j].tool_calls
        /\ \A k \in (j + 1)..(i - 1) : ~msgs[k].tool_calls

\* C37: whenever the assistant node is about to call the LLM, the list it
\* sends is the last 20 accumulated messages in their order (all of them when
\* there are at most 20), and every tool result in that list comes after the
\* assistant message that requested it, which is in the list as well.
C37_AsStated ==
    \A t \in Threads :
        thread[t].pc = "assistant" =>
            LET msgs == thread[t].messages
                sent == Tail(llm_messages(msgs))   \* after the system prompt
                dropped == Len(msgs) - Len(sent)
            IN  /\ Len(sent) = IF Len(msgs) <= 20 THEN Len(msgs) ELSE 20
                /\ \A i \in 1..Len(sent) : sent[i] = msgs[dropped + i]
                /\ \A i \in 1..Len(msgs) :
                      (i > dropped /\ msgs[i].type = "tool")
                          => Requester(msgs, i) > dropped

\* C38: when every node returns and the LLM eventually answers without tool
\* calls, every turn at load_context eventually reaches done; and a step
\* that leaves the loop of assistant and tools is a step of the assistant
\* node whose response carries no tool calls, going to save_final_response.
C38_TurnTerminates ==
    /\ \A t \in Threads :
          (thread[t].pc = "load_context") ~> (thread[t].pc = "done")
    /\ [][\A t \in Threads :
             ( /\ thread[t].pc \in {"assistant", "tools"}
               /\ thread'[t].pc \notin {"assistant", "tools"} )
             => /\ thread[t].pc = "assistant"
                /\ thread'[t].pc = "save_final_response"
                /\ thread'[t].messages # <<>>
                /\ LET last_msg == thread'[t].messages[Len(thread'[t].messages)]
                   IN  last_msg.type = "ai" /\ ~last_msg.tool_calls]_vars

\* C38 witness: a turn that went through three tool rounds and reached done
C38_Witness ==
    /\ thread[1].pc = "done"
    /\ thread[1].tool_rounds = 3
    /\ thread[1].identity = "ok"

(***************************************************************************)
(* Claims about calculate_available_slots (checked under SlotSpec).        *)
(***************************************************************************)
\* the candidate starts bs + k*d of one block that end inside the block and
\* overlap no booked block [x, y): not (c + d > x and c < y)
C6_ExpectedStarts(bs, be, booked, d) ==
    { c \in bs..(be - d) :
        /\ (c - bs) % d = 0
        /\ \A i \in 1..Len(booked) :
              ~(c + d > MinutesOf(booked[i][1]) /\ c < MinutesOf(booked[i][2])) }

C6_ExpectedOfBlock(block, booked, d) ==
    LET starts == SortedSeqOf(C6_ExpectedStarts(MinutesOf(block[1]),
                                                MinutesOf(block[2]), booked, d))
    IN  [i \in 1..Len(starts) |-> TimeOfMinutes(starts[i])]

RECURSIVE C6_ExpectedFrom(_, _, _, _)
C6_ExpectedFrom(i, blocks, booked, d) ==
    IF i > Len(blocks) THEN <<>>
    ELSE C6_ExpectedOfBlock(blocks[i], booked, d)
         \o C6_ExpectedFrom(i + 1, blocks, booked, d)

\* C6: slot computation rule.  For every list of marker blocks, every list of
\* booked blocks and every duration d >= 1 the function returns, block after
\* block, exactly the starts c = bs + k*d with c + d <= be that no booked block
\* [x, y) overlaps (c + d > x and c < y); a block shorter than d gives nothing.
C6_SlotRule ==
    calc_pc = "done" =>
        available_slots = C6_ExpectedFrom(1, availability_blocks, booked_slots,
                                          duration_minutes)

\* C6 witness: block [09:20,12:00), booked [10:00,10:40), d = 40: the 10:00
\* candidate is removed, 09:20 (ends 10:00) and 10:40 are kept.
C6_Witness ==
    /\ calc_pc = "done"
    /\ availability_blocks = << <<Time(9, 20), Time(12, 0)>> >>
    /\ booked_slots = << <<Time(10, 0), Time(10, 40)>> >>
    /\ duration_minutes = 40
    /\ available_slots = <<Time(9, 20), Time(10, 40), Time(11, 20)>>

C7_Case ==
    /\ calc_pc = "done"
    /\ availability_blocks = << <<Time(9, 0), Time(17, 0)>> >>
    /\ booked_slots = <<>>
    /\ duration_minutes = 40

C7_TwelveApart ==
    /\ Len(available_slots) = 12
    /\ available_slots[1] = Time(9, 0)
    /\ available_slots[2] = Time(9, 40)
    /\ \A i, j \in 1..Len(available_slots) :
          i < j => MinutesOf(available_slots[j])
                     >= MinutesOf(available_slots[i]) + 40

\* C7 as stated: slot determinism.  One marker block [09:00,17:00), no booked
\* block and a duration of 40 minutes give exactly 12 pairwise non-overlapping
\* slots, the first at 09:00, the second at 09:40 and the last at 16:00.
C7_AsStated ==
    C7_Case => (C7_TwelveApart /\ available_slots[12] = Time(16, 0))

\* C7 amended: the same case gives exactly 12 pairwise non-overlapping slots,
\* the first at 09:00, the second at 09:40 and the last at 16:20
\* (09:00 + 11 * 40 min; 16:00 is not a multiple of 40 minutes after 09:00).
C7_SlotDeterminism ==
    C7_Case => (C7_TwelveApart /\ available_slots[12] = Time(16, 20))

C7_Witness == C7_Case /\ Len(available_slots) = 12

\* C34: the returned slot list is in chronological (non-decreasing) order of
\* start time for any list of marker blocks, overlapping or out of start-time
\* order included.
C34_AsStated ==
    calc_pc = "done" =>
        \A i \in 1..(Len(available_slots) - 1) :
            MinutesOf(available_slots[i]) <= MinutesOf(available_slots[i + 1])

\* C35: any two distinct slots returned for one resource, date and duration d
\* start at least d minutes apart, for any list of marker blocks (two entries
\* with the same start time are not counted as distinct slots).
C35_AsStated ==
    calc_pc = "done" =>
        \A i, j \in 1..Len(available_slots) :
            available_slots[i] # available_slots[j] =>
                \/ MinutesOf(available_slots[j])
                     >= MinutesOf(available_slots[i]) + duration_minutes
                \/ MinutesOf(available_slots[i])
                     >= MinutesOf(available_slots[j]) + duration_minutes

(***************************************************************************)
(* Claims about the profile merge (checked under ProfileSpec).             *)
(***************************************************************************)
\* the claim of C10 for one list field with its maximum
C10_FieldMerged(old, extracted, new, max) ==
    IsList(extracted) =>
        /\ Range(Items(new)) = Range(Items(old)) \cup Range(Items(extracted))
        /\ NoDuplicates(Items(new))
        /\ Len(Items(new)) <= max

\* C10: merging extracted list values into an existing profile yields the
\* union of both lists without duplicates, keeping every existing item, and
\* the resulting list is never longer than the maximum kept for the field.
C10_AsStated ==
    (profile_call.op = "update_profile" /\ ~profile_call.raised) =>
        /\ C10_FieldMerged(profile_before.preferred_services,
                           profile_call.updates.preferred_services,
                           profile.preferred_services, KeepRecentServices)
        /\ C10_FieldMerged(profile_before.preferred_employees,
                           profile_call.updates.preferred_employees,
                           profile.preferred_employees, KeepRecentEmployees)

\* an extracted value that is a non-empty string
NonEmptyValue(v) == IsStr(v) /\ Items(v) # ""

\* C33: a scalar profile field is overwritten only when the extracted value
\* is non-empty: after update_profile, full_name differs from its value
\* before the call only when the updates carry a non-empty full_name, and an
\* update made only of empty, null or unknown entries keeps every stored
\* field (the interaction timestamp aside).
C33_AsStated ==
    (profile_call.op = "update_profile" /\ ~profile_call.raised) =>
        /\ profile.full_name # profile_before.full_name
              => NonEmptyValue(profile_call.updates.full_name)
        /\ (/\ ~NonEmptyValue(profile_call.updates.full_name)
            /\ IsAbsent(profile_call.updates.preferred_services)
            /\ IsAbsent(profile_call.updates.preferred_employees))
              => [profile EXCEPT !.last_interaction = None]
                   = [profile_before EXCEPT !.last_interaction = None]

====
